---- MODULE Spec2Model ----
(***************************************************************************)
(* Model of Finance-App.py: a Streamlit script that fetches two stock      *)
(* snapshots from Finnhub, keeps them and a chat log in st.session_state,   *)
(* and renders an analysis, charts and a chat on every script run.          *)
(*                                                                         *)
(* Spec      : the session state machine, one action per script run.       *)
(* SpecFetch : get_stock_data / history / create_price_chart applied to     *)
(*             every combination of upstream payloads.                      *)
(***************************************************************************)
EXTENDS Integers, Sequences, FiniteSets, TLC

VARIABLES
    chat_history,    \* st.session_state.chat_history
    stock1_data,     \* st.session_state.stock1_data
    stock2_data,     \* st.session_state.stock2_data
    stock1_symbol,   \* st.session_state.stock1_symbol
    stock2_symbol,   \* st.session_state.stock2_symbol
    stock1,          \* script global: first text input, upper-cased
    stock2,          \* script global: second text input, upper-cased
    trigger,         \* the widget that caused the script run just finished
    analysis,        \* text rendered in the "AI Analysis" tab by that run
    messages,        \* st.error / st.warning boxes emitted by that run
    f_pc,            \* SpecFetch: position of the function-level run
    f_symbol,        \* SpecFetch: symbol passed to get_stock_data
    f_up,            \* SpecFetch: the upstream payloads of that call
    f_ret,           \* SpecFetch: value returned by get_stock_data
    f_fig,           \* SpecFetch: value returned by create_price_chart
    f_msgs           \* SpecFetch: st.error / st.warning boxes emitted

session_vars == <<chat_history, stock1_data, stock2_data, stock1_symbol,
                  stock2_symbol, stock1, stock2, trigger, analysis, messages>>
fetch_vars == <<f_pc, f_symbol, f_up, f_ret, f_fig, f_msgs>>
vars == <<chat_history, stock1_data, stock2_data, stock1_symbol,
          stock2_symbol, stock1, stock2, trigger, analysis, messages,
          f_pc, f_symbol, f_up, f_ret, f_fig, f_msgs>>

(***************************************************************************)
(* Bounds.                                                                 *)
(***************************************************************************)
MaxBars == 2     \* longest candle series explored
MaxTurns == 4    \* chat submissions stop once the log holds this many turns
MaxPrompts == 2  \* sidebar buttons explored: the first MaxPrompts of the list

(***************************************************************************)
(* Python values.  A scalar is a number or a string; both shapes carry the *)
(* same fields so that any two scalars can be compared.  Numbers with a    *)
(* fractional part (dividend yields) are carried in units of 1/10000.      *)
(***************************************************************************)
Num(n) == [isnum |-> TRUE, n |-> n, s |-> ""]
Str(s) == [isnum |-> FALSE, n |-> 0, s |-> s]
NA == Str("N/A")
Truthy(v) == IF v.isnum THEN v.n # 0 ELSE v.s # ""

None == [none |-> TRUE]
IsNone(x) == DOMAIN x = {"none"}
EmptyDict == <<>>
\* `not payload` for a payload that is None or a dict
Falsy(p) == IsNone(p) \/ DOMAIN p = {}
\* dict.get(k, default)
Get(d, k, default) == IF k \in DOMAIN d THEN d[k] ELSE default

\* outcome of a call: it returns a value or raises an exception
Return(v) == [tag |-> "return", exc |-> <<"", "">>, val |-> v]
Raise(e) == [tag |-> "raise", exc |-> e, val |-> None]

(***************************************************************************)
(* get_stock_data                                                          *)
(***************************************************************************)
Million == 1000000
Hundred == 100

marketCap_of(profile) ==
    IF Truthy(Get(profile, "marketCapitalization", Num(0)))
    THEN Num(Get(profile, "marketCapitalization", NA).n * Million)
    ELSE NA

metric_of(financials) == Get(financials, "metric", EmptyDict)

\* variant: the sentinel instead of 0 for an absent dividend yield
dividendYield_of_sentinel(financials) ==
    IF Truthy(Get(metric_of(financials), "dividendYieldIndicatedAnnual", Num(0)))
    THEN Num(Get(metric_of(financials), "dividendYieldIndicatedAnnual", Num(0)).n \div Hundred)
    ELSE NA

dividendYield_of(financials) ==
    IF Truthy(Get(metric_of(financials), "dividendYieldIndicatedAnnual", Num(0)))
    THEN Num(Get(metric_of(financials), "dividendYieldIndicatedAnnual", Num(0)).n \div Hundred)
    ELSE Num(0)

info_of(symbol, profile, quote, financials) ==
    [ symbol           |-> Str(symbol),
      shortName        |-> Get(profile, "name", NA),
      marketCap        |-> marketCap_of(profile),
      currentPrice     |-> Get(quote, "c", NA),
      trailingPE       |-> Get(metric_of(financials), "peBasicExclExtraTTM", NA),
      forwardPE        |-> Get(metric_of(financials), "peNormalizedAnnual", NA),
      fiftyTwoWeekHigh |-> Get(quote, "h", NA),
      fiftyTwoWeekLow  |-> Get(quote, "l", NA),
      dividendYield    |-> dividendYield_of(financials),
      sector           |-> Get(profile, "finnhubIndustry", NA),
      beta             |-> Get(metric_of(financials), "beta", NA) ]

TransportError == <<"upstream request failed", "">>

\* variant: no emptiness test on the quote payload
get_stock_data_try_noquote(symbol, up) ==
    IF up.profile.tag = "raise" THEN Raise(up.profile.exc)
    ELSE IF Falsy(up.profile.val)
    THEN Raise(<<"No company profile data found for symbol: ", symbol>>)
    ELSE IF up.quote.tag = "raise" THEN Raise(up.quote.exc)
    ELSE IF up.financials.tag = "raise" THEN Raise(up.financials.exc)
    ELSE IF Falsy(up.financials.val)
    THEN Raise(<<"No financial data found for symbol: ", symbol>>)
    ELSE IF up.candles.tag = "raise" THEN Raise(up.candles.exc)
    ELSE Return([ info |-> info_of(symbol, up.profile.val, up.quote.val,
                                   up.financials.val),
                  candles |-> up.candles.val ])

\* variant: no emptiness test on the financials payload
get_stock_data_try_lenient(symbol, up) ==
    IF up.profile.tag = "raise" THEN Raise(up.profile.exc)
    ELSE IF Falsy(up.profile.val)
    THEN Raise(<<"No company profile data found for symbol: ", symbol>>)
    ELSE IF up.quote.tag = "raise" THEN Raise(up.quote.exc)
    ELSE IF Falsy(up.quote.val)
    THEN Raise(<<"No quote data found for symbol: ", symbol>>)
    ELSE IF up.financials.tag = "raise" THEN Raise(up.financials.exc)
    ELSE IF up.candles.tag = "raise" THEN Raise(up.candles.exc)
    ELSE Return([ info |-> info_of(symbol, up.profile.val, up.quote.val,
                                   up.financials.val),
                  candles |-> up.candles.val ])

\* the try block of get_stock_data: the four upstream calls in order, each
\* followed by its emptiness test, then the consolidated object
get_stock_data_try(symbol, up) ==
    IF up.profile.tag = "raise" THEN Raise(up.profile.exc)
    ELSE IF Falsy(up.profile.val)
    THEN Raise(<<"No company profile data found for symbol: ", symbol>>)
    ELSE IF up.quote.tag = "raise" THEN Raise(up.quote.exc)
    ELSE IF Falsy(up.quote.val)
    THEN Raise(<<"No quote data found for symbol: ", symbol>>)
    ELSE IF up.financials.tag = "raise" THEN Raise(up.financials.exc)
    ELSE IF Falsy(up.financials.val)
    THEN Raise(<<"No financial data found for symbol: ", symbol>>)
    ELSE IF up.candles.tag = "raise" THEN Raise(up.candles.exc)
    ELSE Return([ info |-> info_of(symbol, up.profile.val, up.quote.val,
                                   up.financials.val),
                  candles |-> up.candles.val ])

\* the value get_stock_data returns: the except clause turns every
\* exception into None
get_stock_data(symbol, up) ==
    IF get_stock_data_try(symbol, up).tag = "raise"
    THEN None
    ELSE get_stock_data_try(symbol, up).val

\* the st.error boxes get_stock_data emits
get_stock_data_msgs(symbol, up) ==
    IF get_stock_data_try(symbol, up).tag = "raise"
    THEN << [ level |-> "error", head |-> "Error fetching data for ",
              symbol |-> symbol,
              detail |-> get_stock_data_try(symbol, up).exc ] >>
    ELSE << >>

(***************************************************************************)
(* history (the closure attached to the snapshot) and create_price_chart   *)
(***************************************************************************)
\* pd.to_datetime(t, unit='s')
to_datetime(t) == [unit |-> "s", epoch |-> t]

SameLength(candles) ==
    /\ Len(candles.o) = Len(candles.h)
    /\ Len(candles.o) = Len(candles.l)
    /\ Len(candles.o) = Len(candles.c)
    /\ Len(candles.o) = Len(candles.v)
    /\ Len(candles.o) = Len(candles.t)

\* a DataFrame is the sequence of its rows; pd.DataFrame() has none.
\* Columns of unequal length make the DataFrame constructor raise.
history(candles) ==
    IF ~Falsy(candles) /\ Get(candles, "s", "") = "ok"
    THEN IF SameLength(candles)
         THEN Return([ i \in 1..Len(candles.o) |->
                         [ index  |-> to_datetime(candles.t[i]),
                           Open   |-> candles.o[i],
                           High   |-> candles.h[i],
                           Low    |-> candles.l[i],
                           Close  |-> candles.c[i],
                           Volume |-> candles.v[i] ] ])
         ELSE Raise(<<"All arrays must be of the same length", "">>)
    ELSE Return(<< >>)

\* variant: the open and close columns exchanged
Candlestick_swapped(hist, symbol) ==
    [ x     |-> [i \in 1..Len(hist) |-> hist[i].index],
      open  |-> [i \in 1..Len(hist) |-> hist[i].Close],
      high  |-> [i \in 1..Len(hist) |-> hist[i].High],
      low   |-> [i \in 1..Len(hist) |-> hist[i].Low],
      close |-> [i \in 1..Len(hist) |-> hist[i].Open],
      title |-> <<symbol, " Stock Price - Last Year">> ]

\* the figure: one candlestick trace built from the frame's columns
Candlestick(hist, symbol) ==
    [ x     |-> [i \in 1..Len(hist) |-> hist[i].index],
      open  |-> [i \in 1..Len(hist) |-> hist[i].Open],
      high  |-> [i \in 1..Len(hist) |-> hist[i].High],
      low   |-> [i \in 1..Len(hist) |-> hist[i].Low],
      close |-> [i \in 1..Len(hist) |-> hist[i].Close],
      title |-> <<symbol, " Stock Price - Last Year">> ]

create_price_chart(stock_data, symbol) ==
    IF history(stock_data.candles).tag = "raise" THEN None
    ELSE IF history(stock_data.candles).val = << >> THEN None
    ELSE Candlestick(history(stock_data.candles).val, symbol)

create_price_chart_msgs(stock_data, symbol) ==
    IF history(stock_data.candles).tag = "raise"
    THEN << [ level |-> "error", head |-> "Error creating chart for ",
              symbol |-> symbol,
              detail |-> history(stock_data.candles).exc ] >>
    ELSE IF history(stock_data.candles).val = << >>
    THEN << [ level |-> "warning", head |-> "No historical data available for ",
              symbol |-> symbol, detail |-> <<"", "">> ] >>
    ELSE << >>

(***************************************************************************)
(* Upstream payloads explored.                                             *)
(***************************************************************************)
ProfilePayloads ==
    { None, EmptyDict,
      [ name |-> Str("Acme"), marketCapitalization |-> Num(3),
        finnhubIndustry |-> Str("Technology") ],
      [ name |-> Str("Acme"), finnhubIndustry |-> Str("Technology") ],
      [ marketCapitalization |-> Num(0) ] }

QuotePayloads ==
    { None, EmptyDict,
      [ c |-> Num(100), h |-> Num(110), l |-> Num(90) ],
      [ c |-> Num(100) ] }

FinancialsPayloads ==
    { None, EmptyDict,
      [ series |-> EmptyDict ],
      [ metric |-> EmptyDict ],
      [ metric |-> [ peBasicExclExtraTTM |-> Num(30), peNormalizedAnnual |-> Num(25),
                     beta |-> Num(2), dividendYieldIndicatedAnnual |-> Num(15000) ] ],
      [ metric |-> [ beta |-> Num(2), dividendYieldIndicatedAnnual |-> Num(0) ] ] }

\* n daily bars as the parallel arrays of the candle endpoint
Bars(status, n) ==
    [ s |-> status,
      t |-> [i \in 1..n |-> 86400 * i],
      o |-> [i \in 1..n |-> 100 + i],
      h |-> [i \in 1..n |-> 200 + i],
      l |-> [i \in 1..n |-> 300 + i],
      c |-> [i \in 1..n |-> 400 + i],
      v |-> [i \in 1..n |-> 500 + i] ]

\* arrays of unequal length: the timestamps lack the last bar
Ragged(n) == [Bars("ok", n) EXCEPT !.t = SubSeq(Bars("ok", n).t, 1, n - 1)]

CandlePayloads ==
    { None, EmptyDict, [ s |-> "no_data" ] }
    \cup { Bars("ok", n) : n \in 0..MaxBars }
    \cup { Bars("no_data", n) : n \in 1..MaxBars }
    \cup { Ragged(n) : n \in 1..MaxBars }

Outcomes(payloads) == { Return(p) : p \in payloads } \cup { Raise(TransportError) }

Upstreams ==
    [ profile : Outcomes(ProfilePayloads), quote : Outcomes(QuotePayloads),
      financials : Outcomes(FinancialsPayloads), candles : Outcomes(CandlePayloads) ]

Symbols == {"NVDA", "MSFT"}

(***************************************************************************)
(* SpecFetch: the functions applied to every input.                        *)
(***************************************************************************)
SessionInit ==
    /\ chat_history = << >>
    /\ stock1_data = None
    /\ stock2_data = None
    /\ stock1_symbol = ""
    /\ stock2_symbol = ""
    /\ stock1 = "NVDA"
    /\ stock2 = "MSFT"
    /\ trigger = "none"
    /\ analysis = None
    /\ messages = << >>

FetchIdle ==
    /\ f_pc = "idle"
    /\ f_symbol = ""
    /\ f_up = None
    /\ f_ret = None
    /\ f_fig = None
    /\ f_msgs = << >>

FetchInit ==
    /\ SessionInit
    /\ f_pc = "start"
    /\ f_symbol \in Symbols
    /\ f_up \in Upstreams
    /\ f_ret = None
    /\ f_fig = None
    /\ f_msgs = << >>

FetchCall ==
    /\ f_pc = "start"
    /\ f_ret' = get_stock_data(f_symbol, f_up)
    /\ f_msgs' = get_stock_data_msgs(f_symbol, f_up)
    /\ f_pc' = "fetched"
    /\ UNCHANGED <<f_symbol, f_up, f_fig>>
    /\ UNCHANGED session_vars

ChartCall ==
    /\ f_pc = "fetched"
    /\ ~IsNone(f_ret)
    /\ f_fig' = create_price_chart(f_ret, f_symbol)
    /\ f_msgs' = create_price_chart_msgs(f_ret, f_symbol)
    /\ f_pc' = "charted"
    /\ UNCHANGED <<f_symbol, f_up, f_ret>>
    /\ UNCHANGED session_vars

FetchNext == FetchCall \/ ChartCall

SpecFetch == FetchInit /\ [][FetchNext]_vars

(***************************************************************************)
(* Text.  An f-string result is kept as its literal prefix and the          *)
(* substituted remainder, so that "Chat error: ..." can be told from        *)
(* generated prose.                                                         *)
(***************************************************************************)
Text(prefix, body) == [prefix |-> prefix, body |-> body]

FormatFault == "Cannot specify ',' with 's'."
NoInfoFault == "'NoneType' object has no attribute 'info'"
GenerationFault == "generation request failed"

\* format(value, ","): thousands separators exist for numbers only
format_comma(v) ==
    IF v.isnum THEN Return([spec |-> ",", of |-> v])
    ELSE Raise(<<FormatFault, "">>)

\* the generation collaborator: a response object, a falsy response, or an
\* exception
GenOutcomes ==
    { Return([text |-> "generated prose"]), Return(None),
      Raise(<<GenerationFault, "">>) }

(***************************************************************************)
(* get_ai_analysis                                                         *)
(***************************************************************************)
stock_info(data, symbol) ==
    [ symbol         |-> symbol,
      market_cap     |-> Get(data.info, "marketCap", NA),
      pe_ratio       |-> Get(data.info, "trailingPE", NA),
      price          |-> Get(data.info, "currentPrice", NA),
      high_52w       |-> Get(data.info, "fiftyTwoWeekHigh", NA),
      low_52w        |-> Get(data.info, "fiftyTwoWeekLow", NA),
      forward_pe     |-> Get(data.info, "forwardPE", NA),
      dividend_yield |-> Num(Get(data.info, "dividendYield", Num(0)).n * Hundred),
      sector         |-> Get(data.info, "sector", NA),
      beta           |-> Get(data.info, "beta", NA) ]

\* the prompt f-string: it raises when a market cap is not a number
analysis_prompt(info1, info2) ==
    IF format_comma(info1.market_cap).tag = "raise"
    THEN Raise(format_comma(info1.market_cap).exc)
    ELSE IF format_comma(info2.market_cap).tag = "raise"
    THEN Raise(format_comma(info2.market_cap).exc)
    ELSE Return([ first  |-> [info1 EXCEPT !.market_cap =
                                  format_comma(info1.market_cap).val],
                  second |-> [info2 EXCEPT !.market_cap =
                                  format_comma(info2.market_cap).val] ])

get_ai_analysis(data1, data2, symbol1, symbol2, gen) ==
    IF analysis_prompt(stock_info(data1, symbol1), stock_info(data2, symbol2)).tag = "raise"
    THEN Text("Analysis error: ",
              analysis_prompt(stock_info(data1, symbol1),
                              stock_info(data2, symbol2)).exc[1])
    ELSE IF gen.tag = "raise" THEN Text("Analysis error: ", gen.exc[1])
    ELSE IF IsNone(gen.val) THEN Text("", "No analysis available")
    ELSE Text("", gen.val.text)

(***************************************************************************)
(* generate_chat_response                                                  *)
(***************************************************************************)
chat_context(data1, data2, symbol1, symbol2) ==
    IF IsNone(data1) \/ IsNone(data2) THEN Raise(<<NoInfoFault, "">>)
    ELSE IF format_comma(Get(data1.info, "marketCap", NA)).tag = "raise"
    THEN Raise(<<FormatFault, "">>)
    ELSE IF format_comma(Get(data2.info, "marketCap", NA)).tag = "raise"
    THEN Raise(<<FormatFault, "">>)
    ELSE Return([ first  |-> [ symbol |-> symbol1,
                               name |-> Get(data1.info, "shortName", Str("")),
                               pe |-> Get(data1.info, "trailingPE", NA),
                               market_cap |-> format_comma(Get(data1.info, "marketCap", NA)).val,
                               beta |-> Get(data1.info, "beta", NA) ],
                  second |-> [ symbol |-> symbol2,
                               name |-> Get(data2.info, "shortName", Str("")),
                               pe |-> Get(data2.info, "trailingPE", NA),
                               market_cap |-> format_comma(Get(data2.info, "marketCap", NA)).val,
                               beta |-> Get(data2.info, "beta", NA) ] ])

\* variant: no try/except, a failure propagates to the caller
generate_chat_response_unguarded(data1, data2, symbol1, symbol2, gen) ==
    IF chat_context(data1, data2, symbol1, symbol2).tag = "raise"
    THEN Raise(chat_context(data1, data2, symbol1, symbol2).exc)
    ELSE IF gen.tag = "raise" THEN Raise(gen.exc)
    ELSE IF IsNone(gen.val) THEN Return(Text("", "Couldn't generate response"))
    ELSE Return(Text("", gen.val.text))

\* the outcome of the call: with the except clause it always returns
generate_chat_response(data1, data2, symbol1, symbol2, gen) ==
    IF chat_context(data1, data2, symbol1, symbol2).tag = "raise"
    THEN Return(Text("Chat error: ",
                     chat_context(data1, data2, symbol1, symbol2).exc[1]))
    ELSE IF gen.tag = "raise" THEN Return(Text("Chat error: ", gen.exc[1]))
    ELSE IF IsNone(gen.val) THEN Return(Text("", "Couldn't generate response"))
    ELSE Return(Text("", gen.val.text))

(***************************************************************************)
(* The script: session state and its handlers.                             *)
(***************************************************************************)
\* str.upper() on the symbols a user types
upper(s) ==
    CASE s = "nvda" -> "NVDA"
      [] s = "msft" -> "MSFT"
      [] OTHER -> s

TypedSymbols == {"", "nvda"}

questions ==
    << "Compare growth potential", "Which has better valuation?",
       "Analyze risk factors", "Compare dividend policies",
       "Technical analysis outlook" >>

ChatPrompts == {"Is NVDA overvalued?"}

\* upstream behaviours explored by the session: a full payload set, one whose
\* profile lacks the market capitalisation, and an unknown symbol
FullUpstream ==
    [ profile |-> Return([ name |-> Str("Acme"), marketCapitalization |-> Num(3),
                           finnhubIndustry |-> Str("Technology") ]),
      quote |-> Return([ c |-> Num(100), h |-> Num(110), l |-> Num(90) ]),
      financials |-> Return([ metric |-> [ peBasicExclExtraTTM |-> Num(30),
                                           peNormalizedAnnual |-> Num(25),
                                           beta |-> Num(2),
                                           dividendYieldIndicatedAnnual |-> Num(15000) ] ]),
      candles |-> Return(Bars("ok", 1)) ]

SessionUpstreams ==
    { FullUpstream,
      [FullUpstream EXCEPT !.profile = Return([ name |-> Str("Acme") ]),
                           !.candles = Return([ s |-> "no_data" ])],
      [FullUpstream EXCEPT !.quote = Return(EmptyDict)] }

Session ==
    [ chat_history |-> chat_history, stock1_data |-> stock1_data,
      stock2_data |-> stock2_data, stock1_symbol |-> stock1_symbol,
      stock2_symbol |-> stock2_symbol ]

Loaded(data) == ~IsNone(data)

\* variant: the slots, symbols and log are replaced only when both fetches
\* succeed
analyze_handler_keep_on_failure(ss, s1, s2, up1, up2) ==
    IF s1 # "" /\ s2 # ""
         /\ Loaded(get_stock_data(s1, up1)) /\ Loaded(get_stock_data(s2, up2))
    THEN [ chat_history |-> << >>,
           stock1_data |-> get_stock_data(s1, up1),
           stock2_data |-> get_stock_data(s2, up2),
           stock1_symbol |-> s1,
           stock2_symbol |-> s2 ]
    ELSE ss

\* variant: the chat log survives a new analysis
analyze_handler_no_reset(ss, s1, s2, up1, up2) ==
    IF s1 # "" /\ s2 # ""
    THEN [ chat_history |-> ss.chat_history,
           stock1_data |-> get_stock_data(s1, up1),
           stock2_data |-> get_stock_data(s2, up2),
           stock1_symbol |-> s1,
           stock2_symbol |-> s2 ]
    ELSE ss

\* the "Analyze Stocks" button handler
analyze_handler(ss, s1, s2, up1, up2) ==
    IF s1 # "" /\ s2 # ""
    THEN [ chat_history |-> << >>,
           stock1_data |-> get_stock_data(s1, up1),
           stock2_data |-> get_stock_data(s2, up2),
           stock1_symbol |-> s1,
           stock2_symbol |-> s2 ]
    ELSE ss

analyze_msgs(s1, s2, up1, up2) ==
    IF s1 # "" /\ s2 # ""
    THEN get_stock_data_msgs(s1, up1) \o get_stock_data_msgs(s2, up2)
    ELSE << [ level |-> "warning", head |-> "Please enter both stock symbols",
              symbol |-> "", detail |-> <<"", "">> ] >>

Turn(role, content) == [role |-> role, content |-> content]

\* variant: the log is rebuilt from the new exchange only
submit_handler_replace(ss, question, gen) ==
    [ss EXCEPT !.chat_history =
        << Turn("user", Text("", question)),
           Turn("ai", generate_chat_response(ss.stock1_data, ss.stock2_data,
                          ss.stock1_symbol, ss.stock2_symbol, gen).val) >>]

\* variant: the assistant turn is appended only if the response was produced
\* without an exception
submit_handler_unguarded(ss, question, gen) ==
    IF generate_chat_response_unguarded(ss.stock1_data, ss.stock2_data,
           ss.stock1_symbol, ss.stock2_symbol, gen).tag = "raise"
    THEN [ss EXCEPT !.chat_history =
            Append(ss.chat_history, Turn("user", Text("", question)))]
    ELSE [ss EXCEPT !.chat_history =
            Append(Append(ss.chat_history, Turn("user", Text("", question))),
                   Turn("ai", generate_chat_response_unguarded(ss.stock1_data,
                          ss.stock2_data, ss.stock1_symbol, ss.stock2_symbol,
                          gen).val))]

\* the chat input handler and the sidebar button handler: the same three
\* statements, then st.rerun()
submit_handler(ss, question, gen) ==
    [ss EXCEPT !.chat_history =
        Append(Append(ss.chat_history, Turn("user", Text("", question))),
               Turn("ai", generate_chat_response(ss.stock1_data, ss.stock2_data,
                              ss.stock1_symbol, ss.stock2_symbol, gen).val))]

\* the main display guard
main_display(ss) == Loaded(ss.stock1_data) /\ Loaded(ss.stock2_data)

\* the guard of the "Quick Analysis Prompts" sidebar
sidebar_display(ss) == Loaded(ss.stock1_data)

\* what one pass over the main display section renders: the analysis tab
\* and the boxes emitted while building the two charts
render_analysis(ss, gen) ==
    IF main_display(ss)
    THEN get_ai_analysis(ss.stock1_data, ss.stock2_data, ss.stock1_symbol,
                         ss.stock2_symbol, gen)
    ELSE None

render_msgs(ss) ==
    IF main_display(ss)
    THEN create_price_chart_msgs(ss.stock1_data, ss.stock1_symbol)
         \o create_price_chart_msgs(ss.stock2_data, ss.stock2_symbol)
    ELSE << >>

Store(ss) ==
    /\ chat_history' = ss.chat_history
    /\ stock1_data' = ss.stock1_data
    /\ stock2_data' = ss.stock2_data
    /\ stock1_symbol' = ss.stock1_symbol
    /\ stock2_symbol' = ss.stock2_symbol

Init == SessionInit /\ FetchIdle

\* a script run caused by committing one of the two text inputs
EditInput ==
    \E slot \in {1, 2}, typed \in TypedSymbols, gen \in GenOutcomes :
        /\ stock1' = IF slot = 1 THEN upper(typed) ELSE stock1
        /\ stock2' = IF slot = 2 THEN upper(typed) ELSE stock2
        /\ trigger' = "input"
        /\ Store(Session)
        /\ analysis' = render_analysis(Session, gen)
        /\ messages' = render_msgs(Session)
        /\ UNCHANGED fetch_vars

\* a script run caused by the "Analyze Stocks" button
Analyze ==
    \E up1 \in SessionUpstreams, up2 \in SessionUpstreams, gen \in GenOutcomes :
        LET ss == analyze_handler(Session, stock1, stock2, up1, up2) IN
        /\ trigger' = "analyze"
        /\ Store(ss)
        /\ analysis' = render_analysis(ss, gen)
        /\ messages' = analyze_msgs(stock1, stock2, up1, up2) \o render_msgs(ss)
        /\ UNCHANGED <<stock1, stock2>>
        /\ UNCHANGED fetch_vars

\* a script run caused by the chat input, and the run st.rerun() starts
ChatInput ==
    \E prompt \in ChatPrompts, gen \in GenOutcomes, regen \in GenOutcomes :
        LET ss == submit_handler(Session, prompt, gen) IN
        /\ main_display(Session)
        /\ Len(chat_history) + 2 <= MaxTurns
        /\ trigger' = "chat"
        /\ Store(ss)
        /\ analysis' = render_analysis(ss, regen)
        /\ messages' = render_msgs(ss)
        /\ UNCHANGED <<stock1, stock2>>
        /\ UNCHANGED fetch_vars

\* a script run caused by a sidebar button, and the run st.rerun() starts
SidebarPrompt ==
    \E i \in { j \in DOMAIN questions : j <= MaxPrompts },
       gen \in GenOutcomes, regen \in GenOutcomes :
        LET ss == submit_handler(Session, questions[i], gen) IN
        /\ sidebar_display(Session)
        /\ Len(chat_history) + 2 <= MaxTurns
        /\ trigger' = "sidebar"
        /\ Store(ss)
        /\ analysis' = render_analysis(ss, regen)
        /\ messages' = render_msgs(ss)
        /\ UNCHANGED <<stock1, stock2>>
        /\ UNCHANGED fetch_vars

Next == EditInput \/ Analyze \/ ChatInput \/ SidebarPrompt

Spec == Init /\ [][Next]_vars

(***************************************************************************)
(* Properties of the session (Spec).                                       *)
(***************************************************************************)
BothEntered == stock1 # "" /\ stock2 # ""
IsPrefix(a, b) == Len(a) <= Len(b) /\ SubSeq(b, 1, Len(a)) = a
FetchErrors(msgs) ==
    { i \in DOMAIN msgs : msgs[i].head = "Error fetching data for " }
NullSlots ==
    (IF IsNone(stock1_data) THEN {1} ELSE {}) \cup
    (IF IsNone(stock2_data) THEN {2} ELSE {})
SameData(a, b) ==
    IF IsNone(a) \/ IsNone(b) THEN IsNone(a) /\ IsNone(b) ELSE a = b

\* C1: after every Analyze run in which both symbol inputs are non-empty the
\* chat log is empty, whatever it held before and whether the fetches
\* succeeded or failed.
C1_AnalyzeClearsChat ==
    (trigger = "analyze" /\ BothEntered) => chat_history = << >>

C1_Witness ==
    /\ trigger = "analyze" /\ BothEntered
    /\ IsNone(stock2_data) /\ Loaded(stock1_data)
    /\ Cardinality(FetchErrors(messages)) = 1
    /\ chat_history = << >>

\* C2 as stated: when a fetch of an Analyze run fails, the snapshot stored
\* for that slot, the stored symbols and the chat log are the same after the
\* run as before it.
C2_Original ==
    [][ (trigger' = "analyze" /\ BothEntered
           /\ FetchErrors(messages') # {})
        => /\ IsNone(stock1_data') => SameData(stock1_data', stock1_data)
           /\ IsNone(stock2_data') => SameData(stock2_data', stock2_data)
           /\ stock1_symbol' = stock1_symbol
           /\ stock2_symbol' = stock2_symbol
           /\ chat_history' = chat_history ]_vars

\* C2 amended: a failed fetch does not preserve prior state.  After an
\* Analyze run with both symbols non-empty, each slot whose fetch failed holds
\* null whatever it held before (one error box per null slot), the stored
\* symbols are the symbols just entered and the chat log is empty; the state
\* is left untouched only when a symbol input is empty; on first load a
\* failed slot stays null.
C2_FailedFetchStoresNull ==
    [][ trigger' = "analyze"
        => IF BothEntered
           THEN /\ Cardinality(FetchErrors(messages')) = Cardinality(NullSlots')
                /\ IsNone(stock1_data')
                     => \E i \in FetchErrors(messages') : messages'[i].symbol = stock1
                /\ IsNone(stock2_data')
                     => \E i \in FetchErrors(messages') : messages'[i].symbol = stock2
                /\ stock1_symbol' = stock1
                /\ stock2_symbol' = stock2
                /\ chat_history' = << >>
           ELSE /\ FetchErrors(messages') = {}
                /\ UNCHANGED <<stock1_data, stock2_data, stock1_symbol,
                               stock2_symbol, chat_history>> ]_vars

C2_Witness ==
    /\ trigger = "analyze" /\ BothEntered
    /\ IsNone(stock1_data) /\ Loaded(stock2_data)
    /\ stock1_symbol = stock1 /\ stock2_symbol = stock2
    /\ Cardinality(FetchErrors(messages)) = 1
    /\ messages[1].symbol = stock1

\* C3: the chat log is append-only between resets: for every run other than
\* an Analyze run (chat input, sidebar prompt, plain re-render) the log
\* before the run is a prefix of the log after it.
C3_AppendOnlyBetweenResets ==
    [][ trigger' \in {"chat", "sidebar", "input"}
        => IsPrefix(chat_history, chat_history') ]_vars

C3_Witness ==
    /\ trigger \in {"chat", "sidebar"}
    /\ Len(chat_history) = 4
    /\ chat_history[1].content # chat_history[3].content

AskedQuestions ==
    { Text("", q) : q \in ChatPrompts }
    \cup { Text("", questions[i]) : i \in DOMAIN questions }

Alternates(log) ==
    /\ Len(log) % 2 = 0
    /\ \A i \in DOMAIN log :
         log[i].role = (IF i % 2 = 1 THEN "user" ELSE "ai")

\* C4: every chat submission (chat input or sidebar prompt) appends exactly
\* two turns, a user turn with the question and then an assistant turn, also
\* when the generation collaborator fails (the failure becomes the assistant
\* turn's error text); after every run the log has even length and
\* alternates user, assistant.
C4_SubmissionAppendsUserThenAssistant ==
    [][ /\ trigger' \in {"chat", "sidebar"}
          => /\ Len(chat_history') = Len(chat_history) + 2
             /\ chat_history'[Len(chat_history) + 1].role = "user"
             /\ chat_history'[Len(chat_history) + 1].content \in AskedQuestions
             /\ chat_history'[Len(chat_history) + 2].role = "ai"
        /\ Alternates(chat_history') ]_vars

C4_Witness ==
    /\ trigger = "chat"
    /\ Len(chat_history) = 2
    /\ chat_history[1].role = "user"
    /\ chat_history[2] = Turn("ai", Text("Chat error: ", GenerationFault))

FormatFaultText(t) == ~IsNone(t) /\ t.body = FormatFault
SentinelMarketCap ==
    /\ Loaded(stock1_data) /\ Loaded(stock2_data)
    /\ (stock1_data.info.marketCap = NA \/ stock2_data.info.marketCap = NA)

\* C7: when a loaded snapshot's market cap is the 'N/A' sentinel,
\* get_ai_analysis and generate_chat_response render it without a formatting
\* fault: neither the analysis shown nor any assistant turn is the error
\* string of a formatting exception.
C7_SentinelMarketCapRenders ==
    SentinelMarketCap
    => /\ ~FormatFaultText(analysis)
       /\ \A i \in DOMAIN chat_history : ~FormatFaultText(chat_history[i].content)

\* C10: whenever either snapshot is null the chat log is empty: turns are
\* appended only while both snapshots are loaded.
C10_ChatOnlyWhileBothLoaded ==
    (IsNone(stock1_data) \/ IsNone(stock2_data)) => chat_history = << >>


(***************************************************************************)
(* Properties of get_stock_data and create_price_chart (SpecFetch).        *)
(***************************************************************************)
Returned(r) == r.tag = "return"
NonEmpty(r) == r.tag = "return" /\ ~Falsy(r.val)
Fetched == f_pc # "start"
AnyRaise ==
    \E k \in {"profile", "quote", "financials", "candles"} : f_up[k].tag = "raise"
FetchErrorShown ==
    /\ Len(f_msgs) = 1
    /\ f_msgs[1].level = "error"
    /\ f_msgs[1].head = "Error fetching data for "

InfoFields ==
    { "symbol", "shortName", "marketCap", "currentPrice", "trailingPE",
      "forwardPE", "fiftyTwoWeekHigh", "fiftyTwoWeekLow", "dividendYield",
      "sector", "beta" }

\* C5: when the profile or the quote payload is empty, or any upstream call
\* raises, get_stock_data returns None (no snapshot, not a partial one) and
\* the exception is shown as an error box instead of propagating.
C5_EmptyQuoteOrProfileIsNotFound ==
    (f_pc = "fetched" /\
        ( \/ (Returned(f_up.profile) /\ Falsy(f_up.profile.val))
          \/ (Returned(f_up.quote) /\ Falsy(f_up.quote.val))
          \/ AnyRaise ))
    => (IsNone(f_ret) /\ FetchErrorShown)

C5_Witness ==
    /\ f_pc = "fetched"
    /\ NonEmpty(f_up.profile)
    /\ Returned(f_up.quote) /\ DOMAIN f_up.quote.val = {}
    /\ IsNone(f_ret)
    /\ f_msgs[1].detail[1] = "No quote data found for symbol: "

FinancialFieldsDefault(info) ==
    /\ info.trailingPE = NA
    /\ info.forwardPE = NA
    /\ info.beta = NA
    /\ info.dividendYield = Num(0)

\* C6 as stated: with quote and profile non-empty and only the financials
\* payload empty or absent, a snapshot is still returned, its financial
\* fields holding the sentinel/default.
C6_Original ==
    (Fetched /\ NonEmpty(f_up.profile) /\ NonEmpty(f_up.quote)
        /\ Returned(f_up.financials) /\ Falsy(f_up.financials.val)
        /\ Returned(f_up.candles))
    => (~IsNone(f_ret) /\ FinancialFieldsDefault(f_ret.info))

\* C6 amended: with quote and profile non-empty and no upstream call raising,
\* a non-empty financials payload that lacks the metric map (or whose metric
\* map is empty) still yields a snapshot, with trailingPE, forwardPE and beta
\* 'N/A' and dividendYield 0; an empty or absent financials payload fails the
\* whole snapshot just as quote or profile absence does.
C6_MissingMetricsDefaultEmptyFinancialsFails ==
    (Fetched /\ NonEmpty(f_up.profile) /\ NonEmpty(f_up.quote)
        /\ Returned(f_up.financials) /\ Returned(f_up.candles))
    => /\ Falsy(f_up.financials.val) => (IsNone(f_ret) /\ FetchErrorShown)
       /\ ~Falsy(f_up.financials.val) => ~IsNone(f_ret)
       /\ (~Falsy(f_up.financials.val)
             /\ DOMAIN Get(f_up.financials.val, "metric", EmptyDict) = {})
          => FinancialFieldsDefault(f_ret.info)

C6_Witness ==
    /\ Fetched
    /\ NonEmpty(f_up.financials)
    /\ "metric" \notin DOMAIN f_up.financials.val
    /\ ~IsNone(f_ret)
    /\ FinancialFieldsDefault(f_ret.info)

\* the upstream key and payload each info field is read from
ProfileKey ==
    [ shortName |-> "name", marketCap |-> "marketCapitalization",
      sector |-> "finnhubIndustry" ]
QuoteKey ==
    [ currentPrice |-> "c", fiftyTwoWeekHigh |-> "h", fiftyTwoWeekLow |-> "l" ]
MetricKey ==
    [ trailingPE |-> "peBasicExclExtraTTM", forwardPE |-> "peNormalizedAnnual",
      beta |-> "beta", dividendYield |-> "dividendYieldIndicatedAnnual" ]

AbsentFields ==
    { f \in DOMAIN ProfileKey : ProfileKey[f] \notin DOMAIN f_up.profile.val }
    \cup { f \in DOMAIN QuoteKey : QuoteKey[f] \notin DOMAIN f_up.quote.val }
    \cup { f \in DOMAIN MetricKey :
             MetricKey[f] \notin DOMAIN Get(f_up.financials.val, "metric", EmptyDict) }

\* C8 as stated: every snapshot has the fixed set of info fields and every
\* field absent from its source payload holds 'N/A', marketCap and
\* dividendYield included.
C8_Original ==
    (Fetched /\ ~IsNone(f_ret))
    => /\ DOMAIN f_ret.info = InfoFields
       /\ \A f \in AbsentFields : f_ret.info[f] = NA

\* C8 amended: every snapshot has the fixed set of info fields, none omitted,
\* and every field absent from its source payload holds 'N/A' (marketCap
\* included), except dividendYield, which holds the number 0 when absent.
C8_FixedFieldsSentinelExceptDividend ==
    (Fetched /\ ~IsNone(f_ret))
    => /\ DOMAIN f_ret.info = InfoFields
       /\ \A f \in AbsentFields \ {"dividendYield"} : f_ret.info[f] = NA
       /\ "dividendYield" \in AbsentFields => f_ret.info.dividendYield = Num(0)

C8_Witness ==
    /\ Fetched /\ ~IsNone(f_ret)
    /\ {"marketCap", "dividendYield", "fiftyTwoWeekHigh"} \subseteq AbsentFields
    /\ f_ret.info.marketCap = NA
    /\ f_ret.info.dividendYield = Num(0)

NoDataWarningShown ==
    /\ Len(f_msgs) = 1
    /\ f_msgs[1].level = "warning"
    /\ f_msgs[1].head = "No historical data available for "

\* C9: the status flag is checked first.  When the candle payload is absent,
\* its status is not 'ok' or it has zero bars, history() is empty and
\* create_price_chart returns None after the 'no data' warning; when the
\* status is 'ok' with n >= 1 bars, the figure has exactly n points and point
\* i takes its timestamp, open, high, low, close from index i of the arrays.
C9_ChartMapsBarsOneToOne ==
    f_pc = "charted"
    => LET candles == f_up.candles.val IN
       /\ ( \/ Falsy(candles)
            \/ candles.s # "ok"
            \/ (SameLength(candles) /\ Len(candles.t) = 0) )
          => (IsNone(f_fig) /\ NoDataWarningShown)
       /\ ( ~Falsy(candles) /\ candles.s = "ok" /\ SameLength(candles)
              /\ Len(candles.t) > 0 )
          => /\ ~IsNone(f_fig)
             /\ f_msgs = << >>
             /\ Len(f_fig.x) = Len(candles.t)
             /\ Len(f_fig.open) = Len(candles.t)
             /\ Len(f_fig.high) = Len(candles.t)
             /\ Len(f_fig.low) = Len(candles.t)
             /\ Len(f_fig.close) = Len(candles.t)
             /\ \A i \in 1..Len(candles.t) :
                  /\ f_fig.x[i] = to_datetime(candles.t[i])
                  /\ f_fig.open[i] = candles.o[i]
                  /\ f_fig.high[i] = candles.h[i]
                  /\ f_fig.low[i] = candles.l[i]
                  /\ f_fig.close[i] = candles.c[i]

C9_Witness ==
    /\ f_pc = "charted"
    /\ ~IsNone(f_fig)
    /\ Len(f_fig.x) = MaxBars
    /\ f_fig.close[MaxBars] = f_up.candles.val.c[MaxBars]

C9_WitnessNoData ==
    /\ f_pc = "charted"
    /\ ~Falsy(f_up.candles.val)
    /\ f_up.candles.val.s = "no_data"
    /\ "t" \in DOMAIN f_up.candles.val
    /\ IsNone(f_fig)

====
